---- MODULE Spec2Model ----
(***************************************************************************)
(* comgeo: the generic two-dimensional Vector<T> of src/src/vectors.rs,    *)
(* instantiated at a fixed-width two's-complement signed integer           *)
(* coordinate type (the tests use i32; the width is scaled down to Bits).  *)
(*                                                                         *)
(* Every operation of Vector is a pure function.  A behaviour is one call: *)
(* Init fixes the build (overflow checks on or off), an action picks the   *)
(* operands, applies the operation and records its outcome.  An outcome is *)
(* either a returned value or a panic raised by the coordinate type.       *)
(***************************************************************************)
EXTENDS Integers

VARIABLES
    overflow_checks,  \* build profile: TRUE = overflow panics, FALSE = it wraps
    op,               \* the operation that was called, "idle" before the call
    self,             \* the receiver (a Vector), zero when the call has none
    other,            \* the Vector argument, zero when the call has none
    scalar,           \* the scalar argument, 0 when the call has none
    out               \* the outcome of the call

vars == <<overflow_checks, op, self, other, scalar, out>>

-----------------------------------------------------------------------------
(* The coordinate type T: Signed + Copy, a Bits-wide signed integer.       *)

Bits == 3

MinT == -(2^(Bits - 1))
MaxT == 2^(Bits - 1) - 1
T == MinT..MaxT

InRange(n) == MinT <= n /\ n <= MaxT

\* two's-complement wrap-around of the exact result n
Wrap(n) == ((n - MinT) % (2^Bits)) + MinT

Abs(n) == IF n < 0 THEN -n ELSE n

\* An outcome: a returned value, or a panic.
Ok(x) == [ok |-> TRUE, val |-> x]
Panic == [ok |-> FALSE, val |-> 0]

\* evaluate F on the value of o; a panic propagates
Then(o, F(_)) == IF o.ok THEN F(o.val) ELSE Panic

\* evaluate o1, then o2, then F on their values; a panic propagates
Then2(o1, o2, F(_, _)) == IF o1.ok /\ o2.ok THEN F(o1.val, o2.val) ELSE Panic

\* a coordinate type whose operators always wrap, whatever the build
AlwaysWraps(n) == Ok(Wrap(n))

\* the result of an arithmetic operator whose exact value is n
Overflowing(n) ==
    IF InRange(n) THEN Ok(n)
    ELSE IF overflow_checks THEN Panic
    ELSE Ok(Wrap(n))

zero == 0
one == 1

neg_T(a) == Overflowing(-a)
add_T(a, b) == Overflowing(a + b)
sub_T(a, b) == Overflowing(a - b)
mul_T(a, b) == Overflowing(a * b)

\* division rounding toward negative infinity instead of toward zero
FloorDiv(a, b) == IF b > 0 THEN a \div b ELSE (-a) \div (-b)

\* integer division rounds toward zero
TruncDiv(a, b) ==
    IF (a < 0) = (b < 0) THEN Abs(a) \div Abs(b) ELSE -(Abs(a) \div Abs(b))

\* division by zero and MIN / -1 panic in every build
div_T(a, b) ==
    IF b = 0 THEN Panic
    ELSE IF a = MinT /\ b = -1 THEN Panic
    ELSE Ok(TruncDiv(a, b))

-----------------------------------------------------------------------------
(* Vector<T>                                                               *)

Vector == [x : T, y : T]

with_coords(x, y) == [x |-> x, y |-> y]

default == with_coords(zero, zero)

\* the unit vector with its coordinates in the wrong order
i_hat_swapped == with_coords(zero, one)

i_hat == with_coords(one, zero)

j_hat == with_coords(zero, one)

\* Self::with_coords(ox, oy) for two coordinate expressions
Coords(ox, oy) == Then2(ox, oy, LAMBDA x, y : Ok(with_coords(x, y)))

\* the second product taken with the wrong coordinate of the argument
dot_wrong_coord(v, w) == Then2(mul_T(v.x, w.x), mul_T(v.y, w.x), add_T)

dot(v, w) == Then2(mul_T(v.x, w.x), mul_T(v.y, w.y), add_T)

\* the products added instead of subtracted
cross_added(v, w) == Then2(mul_T(v.x, w.y), mul_T(w.x, v.y), add_T)

cross(v, w) == Then2(mul_T(v.x, w.y), mul_T(w.x, v.y), sub_T)

\* only the first coordinate negated
neg_x_only(v) == Coords(neg_T(v.x), Ok(v.y))

neg(v) == Coords(neg_T(v.x), neg_T(v.y))

add(v, w) == Coords(add_T(v.x, w.x), add_T(v.y, w.y))

\* the operands of the subtraction exchanged
sub_swapped(v, w) == Coords(sub_T(w.x, v.x), sub_T(w.y, v.y))

sub(v, w) == Coords(sub_T(v.x, w.x), sub_T(v.y, w.y))

\* the first coordinate added to the scalar instead of multiplied by it
mul_adds_x(v, s) == Coords(add_T(v.x, s), mul_T(v.y, s))

mul(v, s) == Coords(mul_T(v.x, s), mul_T(v.y, s))

div(v, s) == Coords(div_T(v.x, s), div_T(v.y, s))

\* an equality that looks at the first coordinate only
eq_x_only(v, w) == v.x = w.x

\* #[derive(PartialEq)]: fields compared in order
eq(v, w) == v.x = w.x /\ v.y = w.y

ne(v, w) == v.x # w.x \/ v.y # w.y

-----------------------------------------------------------------------------
(* One call                                                                *)

Init ==
    /\ overflow_checks \in BOOLEAN
    /\ op = "idle"
    /\ self = default
    /\ other = default
    /\ scalar = zero
    /\ out = Ok(FALSE)

\* no call has been made yet
Idle == op = "idle"

\* a call of `name` on receiver v with arguments w and s, with outcome o
Call(name, v, w, s, o) ==
    /\ op' = name
    /\ self' = v
    /\ other' = w
    /\ scalar' = s
    /\ out' = o
    /\ UNCHANGED overflow_checks

Default == Idle /\ Call("default", default, default, zero, Ok(default))

WithCoords == Idle /\ \E x \in T, y \in T :
    Call("with_coords", default, default, zero, Ok(with_coords(x, y)))

IHat == Idle /\ Call("i_hat", default, default, zero, Ok(i_hat))

JHat == Idle /\ Call("j_hat", default, default, zero, Ok(j_hat))

Dot == Idle /\ \E v \in Vector, w \in Vector : Call("dot", v, w, zero, dot(v, w))

Cross == Idle /\ \E v \in Vector, w \in Vector : Call("cross", v, w, zero, cross(v, w))

Neg == Idle /\ \E v \in Vector : Call("neg", v, default, zero, neg(v))

Add == Idle /\ \E v \in Vector, w \in Vector : Call("add", v, w, zero, add(v, w))

Sub == Idle /\ \E v \in Vector, w \in Vector : Call("sub", v, w, zero, sub(v, w))

Mul == Idle /\ \E v \in Vector, s \in T : Call("mul", v, default, s, mul(v, s))

Div == Idle /\ \E v \in Vector, s \in T : Call("div", v, default, s, div(v, s))

Eq == Idle /\ \E v \in Vector, w \in Vector : Call("eq", v, w, zero, Ok(eq(v, w)))

Ne == Idle /\ \E v \in Vector, w \in Vector : Call("ne", v, w, zero, Ok(ne(v, w)))

Next ==
    \/ Default
    \/ WithCoords
    \/ IHat
    \/ JHat
    \/ Dot
    \/ Cross
    \/ Neg
    \/ Add
    \/ Sub
    \/ Mul
    \/ Div
    \/ Eq
    \/ Ne

Spec == Init /\ [][Next]_vars

-----------------------------------------------------------------------------
(* Properties.  An equation e1 == e2 of the library is read on outcomes:   *)
(* both sides panic, or both return and the values are equal (Same).       *)

\* two outcomes are the same: both panic, or both return the same value
Same(o1, o2) == o1.ok = o2.ok /\ (o1.ok => o1.val = o2.val)

\* each coordinate-wise exact result of a vector operation is representable
Fits(ex, ey) == InRange(ex) /\ InRange(ey)

\* a coordinate of v is the least value of the coordinate type
HasMin(v) == v.x = MinT \/ v.y = MinT

\* v + (-v), given the outcome n of -v
PlusNeg(v, n) == Then(n, LAMBDA m : add(v, m))

\* C1 (as claimed): for every vector v, the least value of the coordinate
\* type included, v + (-v) returns the default (zero) vector.
C1_NegAddIsDefault ==
    op = "neg" => Same(PlusNeg(self, out), Ok(default))

\* C1 (amended): v + (-v) returns the default vector for every v without
\* overflow checks (-MIN wraps to MIN and MIN + MIN wraps to zero), and with
\* overflow checks for every v none of whose coordinates is MIN; with
\* overflow checks and a coordinate equal to MIN the negation panics.
C1_NegAddIsDefaultUnlessMinChecked ==
    op = "neg" =>
        IF overflow_checks /\ HasMin(self)
        THEN ~out.ok /\ ~PlusNeg(self, out).ok
        ELSE out.ok /\ Same(PlusNeg(self, out), Ok(default))

C1_Witness ==
    /\ op = "neg"
    /\ ~overflow_checks
    /\ self = with_coords(MinT, MaxT)
    /\ out = Ok(with_coords(MinT, -MaxT))

\* (v + w) - w, given the outcome r of v + w
MinusAfterPlus(r, w) == Then(r, LAMBDA u : sub(u, w))

\* C2 (as claimed): for all vectors v and w, (v + w) - w == v.
C2_AddSubInverse ==
    op = "add" => Same(MinusAfterPlus(out, other), Ok(self))

\* C2 (amended): (v + w) - w == v for all v, w without overflow checks, and
\* with overflow checks whenever both coordinates of v + w are
\* representable; otherwise, with overflow checks, the addition panics.
C2_AddSubInverseUnlessOverflowChecked ==
    op = "add" =>
        IF overflow_checks /\ ~Fits(self.x + other.x, self.y + other.y)
        THEN ~out.ok
        ELSE out.ok /\ Same(MinusAfterPlus(out, other), Ok(self))

C2_Witness ==
    /\ op = "add"
    /\ ~overflow_checks
    /\ self = with_coords(MaxT, MinT)
    /\ other = with_coords(one, -one)
    /\ out = Ok(with_coords(MinT, MaxT))

\* v + (-w)
PlusNegOf(v, w) == Then(neg(w), LAMBDA m : add(v, m))

\* C3 (as claimed): for all vectors v and w, v - w and v + (-w) both
\* produce a result and the results are coordinate-wise equal.
C3_SubIsAddNeg ==
    op = "sub" =>
        /\ out.ok
        /\ PlusNegOf(self, other).ok
        /\ out.val = PlusNegOf(self, other).val

\* C3 (amended): without overflow checks v - w and v + (-w) both return and
\* the results are equal, for all v, w.  With overflow checks, when no
\* coordinate of w is MIN the two have the same outcome (both return the
\* same vector when v - w is representable, both panic when it is not);
\* when a coordinate of w is MIN, v + (-w) panics, also where v - w returns.
C3_SubIsAddNegUnlessOverflowChecked ==
    op = "sub" =>
        IF ~overflow_checks
        THEN /\ out.ok
             /\ PlusNegOf(self, other).ok
             /\ out.val = PlusNegOf(self, other).val
        ELSE /\ out.ok <=> Fits(self.x - other.x, self.y - other.y)
             /\ IF HasMin(other)
                THEN ~PlusNegOf(self, other).ok
                ELSE Same(out, PlusNegOf(self, other))

C3_Witness ==
    /\ op = "sub"
    /\ overflow_checks
    /\ self = with_coords(-one, zero)
    /\ other = with_coords(MinT, zero)
    /\ out = Ok(with_coords(MaxT, zero))

\* C4 (as claimed): every operation returns a value for every input, a zero
\* scalar passed to division and operands at the bounds of the type included.
C4_Total ==
    op # "idle" => out.ok

\* C4 (amended): default, with_coords, i_hat, j_hat and equality return for
\* every input.  neg, add, sub, scalar mul, dot and cross return for every
\* input without overflow checks; with overflow checks they panic exactly
\* when a coordinate operation of theirs overflows.  Scalar div panics in
\* every build exactly when the scalar is zero, or the scalar is -1 and a
\* coordinate is MIN.
C4_TotalExceptCoordinateFailures ==
    /\ op \in {"default", "with_coords", "i_hat", "j_hat", "eq", "ne"} => out.ok
    /\ op = "neg" => (out.ok <=> ~(overflow_checks /\ HasMin(self)))
    /\ op = "add" =>
        (out.ok <=> ~(overflow_checks
                      /\ ~Fits(self.x + other.x, self.y + other.y)))
    /\ op = "sub" =>
        (out.ok <=> ~(overflow_checks
                      /\ ~Fits(self.x - other.x, self.y - other.y)))
    /\ op = "mul" =>
        (out.ok <=> ~(overflow_checks
                      /\ ~Fits(self.x * scalar, self.y * scalar)))
    /\ op = "dot" =>
        (out.ok <=> ~(overflow_checks
                      /\ ~(/\ Fits(self.x * other.x, self.y * other.y)
                           /\ InRange(self.x * other.x + self.y * other.y))))
    /\ op = "cross" =>
        (out.ok <=> ~(overflow_checks
                      /\ ~(/\ Fits(self.x * other.y, other.x * self.y)
                           /\ InRange(self.x * other.y - other.x * self.y))))
    /\ op = "div" =>
        (out.ok <=> scalar # 0 /\ ~(scalar = -1 /\ HasMin(self)))

C4_Witness ==
    /\ op = "div"
    /\ scalar = zero
    /\ self = with_coords(one, one)
    /\ ~out.ok

\* q is the quotient a / s rounded toward zero: the remainder is smaller
\* than the divisor and is zero or has the sign of the dividend
IsTruncatedQuotient(q, a, s) ==
    LET r == a - q * s
    IN  /\ Abs(r) < Abs(s)
        /\ r = 0 \/ ((r < 0) = (a < 0))

\* C5 (as claimed): for every integer vector v and every non-zero scalar s,
\* v / s == (trunc(v.x / s), trunc(v.y / s)).
C5_DivTruncates ==
    op = "div" /\ scalar # 0 =>
        /\ out.ok
        /\ IsTruncatedQuotient(out.val.x, self.x, scalar)
        /\ IsTruncatedQuotient(out.val.y, self.y, scalar)

\* C5 (amended): for every integer vector v and every non-zero scalar s,
\* except s = -1 with a coordinate of v equal to MIN (whose quotient is not
\* representable, and where the division panics),
\* v / s == (trunc(v.x / s), trunc(v.y / s)).
C5_DivTruncatesUnlessMinByMinusOne ==
    op = "div" /\ scalar # 0 =>
        IF scalar = -1 /\ HasMin(self)
        THEN ~out.ok
        ELSE /\ out.ok
             /\ IsTruncatedQuotient(out.val.x, self.x, scalar)
             /\ IsTruncatedQuotient(out.val.y, self.y, scalar)

C5_Witness ==
    /\ op = "div"
    /\ self = with_coords(-3, 3)
    /\ scalar = 2
    /\ out = Ok(with_coords(-one, one))

\* (v + w) * s
TimesAfterPlus(v, w, s) == Then(add(v, w), LAMBDA u : mul(u, s))

\* v * s + w * s, given the outcome p of v * s
PlusAfterTimes(p, w, s) == Then2(p, mul(w, s), add)

\* v + w, v * s, w * s and (v + w) * s are all representable
DistributesExactly(v, w, s) ==
    /\ Fits(v.x + w.x, v.y + w.y)
    /\ Fits(v.x * s, v.y * s)
    /\ Fits(w.x * s, w.y * s)
    /\ Fits((v.x + w.x) * s, (v.y + w.y) * s)

\* C6 (as claimed): for all vectors v, w and every scalar s,
\* (v + w) * s == v * s + w * s.
C6_MulDistributes ==
    op = "mul" =>
        \A w \in Vector :
            Same(TimesAfterPlus(self, w, scalar),
                 PlusAfterTimes(out, w, scalar))

\* C6 (amended): whenever (v + w) * s and v * s + w * s both return, the
\* results are equal.  Without overflow checks both return for all v, w, s;
\* with overflow checks both return exactly when v + w, v * s, w * s and
\* (v + w) * s are representable, and otherwise at least one side panics.
C6_MulDistributesUnlessOverflowChecked ==
    op = "mul" =>
        \A w \in Vector :
            LET l == TimesAfterPlus(self, w, scalar)
                r == PlusAfterTimes(out, w, scalar)
            IN  /\ l.ok /\ r.ok => l.val = r.val
                /\ ~overflow_checks => l.ok /\ r.ok
                /\ overflow_checks =>
                       (l.ok /\ r.ok <=> DistributesExactly(self, w, scalar))

C6_Witness ==
    /\ op = "mul"
    /\ ~overflow_checks
    /\ self = with_coords(MaxT, one)
    /\ scalar = -3
    /\ out = Ok(with_coords(Wrap(-3 * MaxT), -3))

\* -(w.cross(v))
NegCrossOf(w, v) == Then(cross(w, v), neg_T)

\* C7 (as claimed): for all vectors v and w, v.cross(w) == -(w.cross(v)),
\* where cross(v, w) is v.x*w.y - w.x*v.y.
C7_CrossAntiCommutative ==
    op = "cross" =>
        /\ Same(out, NegCrossOf(other, self))
        /\ out.ok => out.val = Wrap(self.x * other.y - other.x * self.y)

\* C7 (amended): v.cross(w) == -(w.cross(v)) for all v, w without overflow
\* checks.  With overflow checks the two sides have the same outcome unless
\* v.cross(w) returns MIN, where w.cross(v) overflows and the right-hand
\* side panics.  A returned v.cross(w) is v.x*w.y - w.x*v.y in the
\* arithmetic of the coordinate type.
C7_CrossAntiCommutativeUnlessMinChecked ==
    op = "cross" =>
        /\ IF overflow_checks /\ out = Ok(MinT)
           THEN ~NegCrossOf(other, self).ok
           ELSE Same(out, NegCrossOf(other, self))
        /\ out.ok => out.val = Wrap(self.x * other.y - other.x * self.y)

C7_Witness ==
    /\ op = "cross"
    /\ self = with_coords(3, 2)
    /\ other = with_coords(one, -one)
    /\ out = Ok(Wrap(-5))
    /\ NegCrossOf(other, self) = out

C10_DotCommutative ==
    op = "dot" =>
        /\ Same(out, dot(other, self))
        /\ out.ok => out.val = Wrap(self.x * other.x + self.y * other.y)

C10_Witness ==
    /\ op = "dot"
    /\ self = with_coords(one, 2)
    /\ other = with_coords(-one, one)
    /\ out = Ok(one)

====
